---- MODULE Spec2Model ----
(***************************************************************************)
(* The replication coordinator of src/main.go: the metadata mapping        *)
(* `files`, its durable document, the store lock `mu`, and the HTTP        *)
(* handlers /list, /upload, /nearest/, /file/ and /delete/, each running   *)
(* on its own goroutine and interleaving with the others.                  *)
(***************************************************************************)
EXTENDS Integers, Sequences, FiniteSets, TLC

\* ------------------------------------------------------------------ bounds
\* Number of HTTP requests served (one goroutine each) in one behaviour.
MaxReqs == 2
\* Largest value the wall clock (time.Now().UnixNano()) takes.
MaxClock == 2
\* Largest number of configured storage nodes where requests interleave.
MaxNodes == 1
\* Largest number of configured storage nodes where /nearest/ runs alone.
MaxGeoNodes == 2

Reqs == 1..MaxReqs
\* File ids a /nearest/ or /delete/ request may name.
ReqIds == 1..MaxClock
\* The payload of the upload on slot r: the file part's name and len(data).
\* The handler never compares two payloads, so giving each request its own
\* loses no behaviour and lets a record be traced to its upload.  File names
\* are numbered; 0 stands for the empty name.
Payload(r) == [filename |-> r, size |-> 10 * r]
\* What one outbound /replicate request can end in: status 201, another
\* status, or a transport error / timeout (err != nil).
Outcomes == {"201", "500", "err"}
\* Latitudes (whole degrees) of the modelled nodes; every modelled node lies
\* on the meridian of the reference point.
Lats == {0, 1, 2}

\* ------------------------------------------------------- program constants
\* lat := 1.3521 (the built-in reference point), in whole degrees.
RefLat == 1
\* bestD := 1e18; any value above the largest great-circle distance
\* (about 20015 km) behaves the same, this one fits TLC's integers.
BigD == 1000000000
\* R * pi / 180 with R = 6371: kilometres per degree of latitude.
KmPerDegree == 111

\* -------------------------------------------------------------- variables
VARIABLES
  nodes,   \* []StorageNode, read once at startup
  files,   \* map[string]FileMeta
  mu,      \* sync.Mutex: 0 when free, else the request holding it
  disk,    \* the document at dbFile
  now,     \* the wall clock
  req      \* per request: the handler it runs, its position and its locals

vars == <<nodes, files, mu, disk, now, req>>

\* ------------------------------------------------------------------ types
\* The zero FileMeta (what `meta, ok := files[id]` yields when ok is false).
NoMeta == [ID |-> 0, Filename |-> 0, Size |-> 0, Replicated |-> <<>>, CreatedAt |-> ""]

\* files = map[string]FileMeta{}
EmptyFiles == [i \in {} |-> NoMeta]

\* A response not yet written: status code, error text, and the JSON body
\* (a node for /nearest/, the mapping for /list).
NoResp == [code |-> 0, msg |-> "", node |-> <<>>, list |-> EmptyFiles]

\* A request slot no handler runs on yet.
\* sent (the node ids a request went out to), got (the node ids that answered
\* 201), acked and saved (os.WriteFile returned no error) record what
\* happened; the handler reads none of them.
Idle == [kind |-> "", pc |-> "idle", id |-> 0, filename |-> 0, size |-> 0,
         idx |-> 0, rep |-> <<>>, acked |-> FALSE, ok |-> FALSE, meta |-> NoMeta,
         resp |-> NoResp, sent |-> <<>>, got |-> {}, saved |-> FALSE, stale |-> FALSE]

\* A request whose goroutine died with the process.
Gone == [Idle EXCEPT !.pc = "gone"]

Abs(x) == IF x < 0 THEN -x ELSE x

\* Node i of a configuration.
StorageNode(i, lat) == [ID |-> i, Lat |-> lat]

\* The configurations the coordinator is started with: k nodes with ids 1..k.
Config(k) == [i \in 1..k |-> StorageNode(i, IF i = 1 THEN 0 ELSE 2)]

\* Every configuration of up to MaxGeoNodes nodes with latitudes in Lats.
GeoConfigs ==
  UNION {{[i \in 1..k |-> StorageNode(i, l[i])] : l \in [1..k -> Lats]} : k \in 0..MaxGeoNodes}

\* ---------------------------------------------------------------- helpers
\* haversine on one meridian (dLon = 0): 2R asin(|sin(dLat/2)|) = R |dLat| pi/180.
haversine(aLat, bLat) == KmPerDegree * Abs(bLat - aLat)

\* The marshalled document after a successful os.WriteFile.
Doc(m) == [kind |-> "doc", doc |-> m]

\* saveDB called before the mutation: the document lags one change behind.
MarshalledStale == Doc(files)

\* json.MarshalIndent(files) as saveDB, called after the mutation, sees it.
Marshalled == Doc(files')

\* What saveDB can leave at dbFile: the full mapping, or, the write having
\* failed (the error is dropped), the document that was there.
SaveOutcomes == {Marshalled, disk}

\* saveDB, w telling whether os.WriteFile succeeded.
saveDB(w) == disk' = IF w THEN Marshalled ELSE disk

\* What loadDB leaves in `files` (empty before it): the document's records,
\* or nothing when the file is absent or does not parse.
loadDB(d) == IF d.kind = "doc" THEN d.doc ELSE EmptyFiles

\* files[id] = meta
Put(m, id, meta) == [k \in DOMAIN m \cup {id} |-> IF k = id THEN meta ELSE m[k]]

\* delete(files, id)
Remove(m, id) == [k \in DOMAIN m \ {id} |-> m[k]]

\* http.Error(w, msg, code)
HttpError(code, msg) == [NoResp EXCEPT !.code = code, !.msg = msg]

\* ---------------------------------------------------------------- startup
Init ==
  /\ nodes \in {Config(k) : k \in 0..MaxNodes}
  /\ files = EmptyFiles
  /\ mu = 0
  /\ disk = [kind |-> "absent", doc |-> EmptyFiles]
  /\ now = 1
  /\ req = [r \in Reqs |-> Idle]

\* A request arrives on slot r (slots are taken in order).
Fresh(r) ==
  /\ req[r].pc = "idle"
  /\ IF r = 1 THEN TRUE ELSE req[r - 1].pc # "idle"

\* Request r is at position p of handler k.
At(r, k, p) == req[r].kind = k /\ req[r].pc = p

\* ------------------------------------------------------------------ /list
\* mu.Lock(); defer mu.Unlock()
ListLock(r) ==
  /\ Fresh(r)
  /\ mu = 0
  /\ mu' = r
  /\ req' = [req EXCEPT ![r] = [Idle EXCEPT !.kind = "list", !.pc = "encode"]]
  /\ UNCHANGED <<nodes, files, disk, now>>

\* json.NewEncoder(w).Encode(files), then the deferred mu.Unlock()
ListEncode(r) ==
  /\ At(r, "list", "encode")
  /\ mu' = 0
  /\ req' = [req EXCEPT ![r].pc = "done",
                        ![r].resp = [NoResp EXCEPT !.code = 200, !.list = files]]
  /\ UNCHANGED <<nodes, files, disk, now>>

\* ---------------------------------------------------------------- /upload
\* The missing-file branch without its `return`: the handler goes on with
\* a nil file.
UploadNoFileNoReturn(r) ==
  /\ Fresh(r)
  /\ req' = [req EXCEPT ![r] = [Idle EXCEPT !.kind = "upload", !.pc = "replicate",
                                 !.id = now, !.idx = 1,
                                 !.resp = HttpError(400, "file required")]]
  /\ UNCHANGED <<nodes, files, mu, disk, now>>

\* r.FormFile fails: 400.
UploadNoFile(r) ==
  /\ Fresh(r)
  /\ req' = [req EXCEPT ![r] = [Idle EXCEPT !.kind = "upload", !.pc = "done",
                                 !.resp = HttpError(400, "file required")]]
  /\ UNCHANGED <<nodes, files, mu, disk, now>>

\* The values time.Now().UnixNano() can return: the clock is read only here,
\* so the time that passed since the last reading is taken at the reading.
ClockReadings == now..MaxClock

\* The id an upload takes: fmt.Sprintf("%d", t) of the clock reading t.
NewId(t) == t

\* data read, id generated, rep := []string{}
UploadStart(r) ==
  /\ Fresh(r)
  /\ \E t \in ClockReadings :
       /\ now' = t
       /\ req' = [req EXCEPT ![r] = [Idle EXCEPT !.kind = "upload", !.pc = "replicate",
                                      !.id = NewId(t), !.filename = Payload(r).filename,
                                      !.size = Payload(r).size, !.idx = 1]]
  /\ UNCHANGED <<nodes, files, mu, disk>>

\* The check inverted: a node is recorded unless it answered 201.
AckedInverted(rep, n, o) == IF o # "201" THEN Append(rep, n.ID) ELSE rep

\* The check as `err == nil` alone: any status counts as stored.
AckedAnyStatus(rep, n, o) == IF o # "err" THEN Append(rep, n.ID) ELSE rep

\* rep after the request to node n ended in outcome o.
Acked(rep, n, o) == IF o = "201" THEN Append(rep, n.ID) ELSE rep

\* One iteration of `for _, n := range nodes`; acked notes whether any node
\* answered 201.
UploadReplicate(r) ==
  /\ At(r, "upload", "replicate")
  /\ req[r].idx <= Len(nodes)
  /\ \E o \in Outcomes :
       req' = [req EXCEPT ![r].rep = Acked(@, nodes[req[r].idx], o),
                          ![r].acked = @ \/ o = "201",
                          ![r].sent = Append(@, nodes[req[r].idx].ID),
                          ![r].got = IF o = "201" THEN @ \cup {nodes[req[r].idx].ID} ELSE @,
                          ![r].idx = @ + 1]
  /\ UNCHANGED <<nodes, files, mu, disk, now>>

\* The lock taken, and the record stored, before the loop has run.
UploadLockEarly(r) ==
  /\ At(r, "upload", "replicate")
  /\ mu = 0
  /\ mu' = r
  /\ req' = [req EXCEPT ![r].pc = "put"]
  /\ UNCHANGED <<nodes, files, disk, now>>

\* mu.Lock() after the loop
UploadLock(r) ==
  /\ At(r, "upload", "replicate")
  /\ req[r].idx > Len(nodes)
  /\ mu = 0
  /\ mu' = r
  /\ req' = [req EXCEPT ![r].pc = "put"]
  /\ UNCHANGED <<nodes, files, disk, now>>

\* The record an upload builds.
NewMeta(q) == [ID |-> q.id, Filename |-> q.filename, Size |-> q.size,
               Replicated |-> q.rep, CreatedAt |-> ""]

\* The put as `files = map[string]FileMeta{id: meta}`: the other records are lost.
UploadedFilesLost(q) == [k \in {q.id} |-> NewMeta(q)]

\* The mapping after files[id] = FileMeta{...}.
UploadedFiles(q) == Put(files, q.id, NewMeta(q))

\* files[id] = FileMeta{...}; saveDB()
UploadPut(r) ==
  /\ At(r, "upload", "put")
  /\ files' = UploadedFiles(req[r])
  /\ \E w \in BOOLEAN :
       /\ saveDB(w)
       /\ req' = [req EXCEPT ![r].pc = "unlock", ![r].saved = w]
  /\ UNCHANGED <<nodes, mu, now>>

\* The status an upload that stored its record answers with.
UploadStatus == 201

\* The handler ending without its mu.Unlock().
UploadUnlockLeak(r) ==
  /\ At(r, "upload", "unlock")
  /\ mu' = mu
  /\ req' = [req EXCEPT ![r].pc = "done", ![r].resp = [NoResp EXCEPT !.code = UploadStatus]]
  /\ UNCHANGED <<nodes, files, disk, now>>

\* The handler reporting a failed write to its caller.
UploadUnlockReports(r) ==
  /\ At(r, "upload", "unlock")
  /\ mu' = 0
  /\ req' = [req EXCEPT ![r].pc = "done",
                        ![r].resp = IF req[r].saved THEN [NoResp EXCEPT !.code = UploadStatus]
                                    ELSE HttpError(500, "save failed")]
  /\ UNCHANGED <<nodes, files, disk, now>>

\* mu.Unlock(); w.WriteHeader(http.StatusCreated)
UploadUnlock(r) ==
  /\ At(r, "upload", "unlock")
  /\ mu' = 0
  /\ req' = [req EXCEPT ![r].pc = "done", ![r].resp = [NoResp EXCEPT !.code = UploadStatus]]
  /\ UNCHANGED <<nodes, files, disk, now>>

\* -------------------------------------------------------------- /nearest/
\* len(nodes) == 0: 503 before any lookup
NearestNoNodes(r) ==
  /\ Fresh(r)
  /\ Len(nodes) = 0
  /\ \E id \in ReqIds :
       req' = [req EXCEPT ![r] = [Idle EXCEPT !.kind = "nearest", !.pc = "done", !.id = id,
                                   !.resp = HttpError(503, "no storage nodes configured")]]
  /\ UNCHANGED <<nodes, files, mu, disk, now>>

\* The handler without its mu.Lock().
NearestNoLock(r) ==
  /\ Fresh(r)
  /\ Len(nodes) # 0
  /\ mu' = mu
  /\ \E id \in ReqIds :
       req' = [req EXCEPT ![r] = [Idle EXCEPT !.kind = "nearest", !.pc = "get", !.id = id]]
  /\ UNCHANGED <<nodes, files, disk, now>>

\* mu.Lock()
NearestLock(r) ==
  /\ Fresh(r)
  /\ Len(nodes) # 0
  /\ mu = 0
  /\ mu' = r
  /\ \E id \in ReqIds :
       req' = [req EXCEPT ![r] = [Idle EXCEPT !.kind = "nearest", !.pc = "get", !.id = id]]
  /\ UNCHANGED <<nodes, files, disk, now>>

\* meta, ok := files[id]; mu.Unlock()
NearestGet(r) ==
  /\ At(r, "nearest", "get")
  /\ mu' = 0
  /\ req' = [req EXCEPT ![r].pc = "select",
                        ![r].ok = req[r].id \in DOMAIN files,
                        ![r].meta = IF req[r].id \in DOMAIN files
                                    THEN files[req[r].id] ELSE NoMeta]
  /\ UNCHANGED <<nodes, files, disk, now>>

\* The inner loop with `d <= bestD`: the last of equidistant nodes wins.
RECURSIVE InnerLastWins(_, _, _, _)
InnerLastWins(n, reps, j, acc) ==
  IF j > Len(reps) THEN acc
  ELSE InnerLastWins(n, reps, j + 1,
             IF n.ID = reps[j] /\ haversine(RefLat, n.Lat) <= acc.bestD
             THEN [best |-> n, bestD |-> haversine(RefLat, n.Lat)]
             ELSE acc)

\* The inner loop `for _, rid := range meta.Replicated` for node n, from
\* position j on; acc is (best, bestD).
RECURSIVE Inner(_, _, _, _)
Inner(n, reps, j, acc) ==
  IF j > Len(reps) THEN acc
  ELSE Inner(n, reps, j + 1,
             IF n.ID = reps[j] /\ haversine(RefLat, n.Lat) < acc.bestD
             THEN [best |-> n, bestD |-> haversine(RefLat, n.Lat)]
             ELSE acc)

\* The outer loop `for _, n := range nodes`, from position i on.
RECURSIVE Outer(_, _, _, _)
Outer(ns, reps, i, acc) ==
  IF i > Len(ns) THEN acc
  ELSE Outer(ns, reps, i + 1, Inner(ns[i], reps, 1, acc))

\* The /file/ handler's choice, nodes[0], in place of the two loops.
SelectFirst(ns, reps) == ns[1]

\* best := nodes[0]; bestD := 1e18; the two loops; the node encoded.
Select(ns, reps) == Outer(ns, reps, 1, [best |-> ns[1], bestD |-> BigD]).best

\* The handler without its `len(meta.Replicated) == 0` branch.
NearestResponseNoEmptyCheck(ns, ok, meta) ==
  IF ~ok THEN HttpError(404, "404 page not found")
  ELSE [NoResp EXCEPT !.code = 200, !.node = <<Select(ns, meta.Replicated)>>]

\* The handler testing the replica list before `ok`.
NearestResponseEmptyFirst(ns, ok, meta) ==
  IF Len(meta.Replicated) = 0 THEN HttpError(503, "file not replicated yet")
  ELSE IF ~ok THEN HttpError(404, "404 page not found")
  ELSE [NoResp EXCEPT !.code = 200, !.node = <<Select(ns, meta.Replicated)>>]

\* What /nearest/ answers once it has looked the record up.
NearestResponse(ns, ok, meta) ==
  IF ~ok THEN HttpError(404, "404 page not found")
  ELSE IF Len(meta.Replicated) = 0 THEN HttpError(503, "file not replicated yet")
  ELSE [NoResp EXCEPT !.code = 200, !.node = <<Select(ns, meta.Replicated)>>]

\* Answer a of request r names a node to which a /delete/ of the same id has
\* already sent its request.
Stale(r, a) ==
  IF a.code # 200 THEN FALSE
  ELSE \E t \in Reqs :
         /\ req[t].kind = "delete"
         /\ req[t].id = req[r].id
         /\ \E i \in 1..Len(req[t].sent) : req[t].sent[i] = a.node[1].ID

\* the rest of the handler, on its locals; stale notes what the /delete/
\* handlers had sent by then
NearestSelect(r) ==
  /\ At(r, "nearest", "select")
  /\ LET a == NearestResponse(nodes, req[r].ok, req[r].meta)
     IN  req' = [req EXCEPT ![r].pc = "done", ![r].resp = a, ![r].stale = Stale(r, a)]
  /\ UNCHANGED <<nodes, files, mu, disk, now>>

\* ----------------------------------------------------------------- /file/
\* 503 without nodes, else 307 to nodes[0]
FileRedirect(r) ==
  /\ Fresh(r)
  /\ \E id \in ReqIds :
       req' = [req EXCEPT ![r] = [Idle EXCEPT !.kind = "file", !.pc = "done", !.id = id,
                 !.resp = IF Len(nodes) = 0
                          THEN HttpError(503, "no storage nodes configured")
                          ELSE [NoResp EXCEPT !.code = 307, !.node = <<nodes[1]>>]]]
  /\ UNCHANGED <<nodes, files, mu, disk, now>>

\* --------------------------------------------------------------- /delete/
\* id taken from the path
DeleteStart(r) ==
  /\ Fresh(r)
  /\ \E id \in ReqIds :
       req' = [req EXCEPT ![r] = [Idle EXCEPT !.kind = "delete", !.pc = "nodes",
                                   !.id = id, !.idx = 1]]
  /\ UNCHANGED <<nodes, files, mu, disk, now>>

\* One iteration of `for _, n := range nodes`: client.Do(req), result dropped.
\* acked notes whether any node carried the delete out.
DeleteNode(r) ==
  /\ At(r, "delete", "nodes")
  /\ req[r].idx <= Len(nodes)
  /\ \E o \in {"200", "err"} :
       req' = [req EXCEPT ![r].acked = @ \/ o = "200",
                          ![r].sent = Append(@, nodes[req[r].idx].ID),
                          ![r].idx = @ + 1]
  /\ UNCHANGED <<nodes, files, mu, disk, now>>

\* mu.Lock() moved above the loop's end.
DeleteLockEarly(r) ==
  /\ At(r, "delete", "nodes")
  /\ mu = 0
  /\ mu' = r
  /\ req' = [req EXCEPT ![r].pc = "del"]
  /\ UNCHANGED <<nodes, files, disk, now>>

\* mu.Lock() after the loop
DeleteLock(r) ==
  /\ At(r, "delete", "nodes")
  /\ req[r].idx > Len(nodes)
  /\ mu = 0
  /\ mu' = r
  /\ req' = [req EXCEPT ![r].pc = "del"]
  /\ UNCHANGED <<nodes, files, disk, now>>

\* The delete made to depend on a node having carried it out.
DeletedFilesIfAcked(q) == IF q.acked THEN Remove(files, q.id) ELSE files

\* The delete as `files = map[string]FileMeta{}`.
DeletedFilesWipe(q) == EmptyFiles

\* The mapping after delete(files, id).
DeletedFiles(q) == Remove(files, q.id)

\* delete(files, id); saveDB()
DeleteDel(r) ==
  /\ At(r, "delete", "del")
  /\ files' = DeletedFiles(req[r])
  /\ \E w \in BOOLEAN :
       /\ saveDB(w)
       /\ req' = [req EXCEPT ![r].pc = "unlock", ![r].saved = w]
  /\ UNCHANGED <<nodes, mu, now>>

\* mu.Unlock(); w.Write([]byte("deleted"))
DeleteUnlock(r) ==
  /\ At(r, "delete", "unlock")
  /\ mu' = 0
  /\ req' = [req EXCEPT ![r].pc = "done",
                        ![r].resp = [NoResp EXCEPT !.code = 200, !.msg = "deleted"]]
  /\ UNCHANGED <<nodes, files, disk, now>>

\* ---------------------------------------------------------------- restart
\* The mapping a starting process has: main never calls loadDB, so it is the
\* initializer map[string]FileMeta{} whatever the document holds.
StartFiles(d) == EmptyFiles

\* No request has been served since the process started.
JustStarted == \A r \in Reqs : req[r].pc \in {"idle", "gone"}

\* The process is killed and started again with the same node file: every
\* goroutine is gone, the lock is fresh, the document stays as it is.
Restart ==
  /\ ~JustStarted
  /\ files' = StartFiles(disk)
  /\ mu' = 0
  /\ req' = [r \in Reqs |-> IF req[r].pc = "idle" THEN Idle ELSE Gone]
  /\ UNCHANGED <<nodes, disk, now>>

Next ==
  \/ Restart
  \/ \E r \in Reqs : ListLock(r)
  \/ \E r \in Reqs : ListEncode(r)
  \/ \E r \in Reqs : UploadNoFile(r)
  \/ \E r \in Reqs : UploadStart(r)
  \/ \E r \in Reqs : UploadReplicate(r)
  \/ \E r \in Reqs : UploadLock(r)
  \/ \E r \in Reqs : UploadPut(r)
  \/ \E r \in Reqs : UploadUnlock(r)
  \/ \E r \in Reqs : NearestNoNodes(r)
  \/ \E r \in Reqs : NearestLock(r)
  \/ \E r \in Reqs : NearestGet(r)
  \/ \E r \in Reqs : NearestSelect(r)
  \/ \E r \in Reqs : FileRedirect(r)
  \/ \E r \in Reqs : DeleteStart(r)
  \/ \E r \in Reqs : DeleteNode(r)
  \/ \E r \in Reqs : DeleteLock(r)
  \/ \E r \in Reqs : DeleteDel(r)
  \/ \E r \in Reqs : DeleteUnlock(r)

Spec == Init /\ [][Next]_vars

\* ------------------------------------------------------ a running process
\* A request arrives and its handler takes its first step.
Arrive(r) ==
  \/ ListLock(r)
  \/ UploadNoFile(r)
  \/ UploadStart(r)
  \/ NearestNoNodes(r)
  \/ NearestLock(r)
  \/ FileRedirect(r)
  \/ DeleteStart(r)

\* The handler of request r takes its next step.
Step(r) ==
  \/ ListEncode(r)
  \/ UploadReplicate(r)
  \/ UploadLock(r)
  \/ UploadPut(r)
  \/ UploadUnlock(r)
  \/ NearestGet(r)
  \/ NearestSelect(r)
  \/ DeleteNode(r)
  \/ DeleteLock(r)
  \/ DeleteDel(r)
  \/ DeleteUnlock(r)

NextLive == \E r \in Reqs : Arrive(r) \/ Step(r)

\* The process is not killed, and every goroutine that can run does: client
\* has Timeout 20s, so client.Do returns, and a goroutine blocked in
\* mu.Lock() runs once the lock is free and stays free.
SpecLive == Init /\ [][NextLive]_vars /\ \A r \in Reqs : WF_vars(Step(r))

\* ------------------------------------------------- /nearest/ on stored maps
\* main never calls loadDB, so under Spec every replica id in `files` names a
\* configured node.  SpecStored is the /nearest/ handler on the mappings
\* loadDB yields from a document that an earlier run, with another node file,
\* wrote: its replica ids may name nodes that are configured no longer.

\* Node ids a stored replica list may hold: MaxGeoNodes + 1 is never configured.
StoredIds == 1..(MaxGeoNodes + 1)

\* Replica lists without repetition over StoredIds.
StoredReps ==
  UNION {{s \in [1..k -> StoredIds] : \A i, j \in 1..k : i # j => s[i] # s[j]} :
         k \in 0..(MaxGeoNodes + 1)}

\* The documents found at dbFile: none, an unparsable one, or one record.
StoredDocs ==
  {[kind |-> "absent", doc |-> EmptyFiles], [kind |-> "malformed", doc |-> EmptyFiles]}
  \cup {Doc([k \in {1} |-> [ID |-> 1, Filename |-> 1, Size |-> 10,
                            Replicated |-> reps, CreatedAt |-> ""]]) : reps \in StoredReps}

InitStored ==
  /\ nodes \in GeoConfigs
  /\ disk \in StoredDocs
  /\ files = loadDB(disk)
  /\ mu = 0
  /\ now = 1
  /\ req = [r \in Reqs |-> Idle]

NextStored ==
  \/ NearestNoNodes(1)
  \/ NearestLock(1)
  \/ NearestGet(1)
  \/ NearestSelect(1)

SpecStored == InitStored /\ [][NextStored]_vars

\* ------------------------------------------- /nearest/ racing with /delete/
\* The replica lists an upload to configuration ns can have built: the ids of
\* the nodes that answered 201, in configuration order.
AckedLists(ns) ==
  {s \in UNION {[1..k -> {ns[i].ID : i \in 1..Len(ns)}] : k \in 0..Len(ns)} :
     \A i, j \in 1..Len(s) : i < j => s[i] < s[j]}

\* The process after one upload, which got id 1, has completed.
InitRace ==
  /\ nodes \in {Config(k) : k \in 0..MaxGeoNodes}
  /\ \E reps \in AckedLists(nodes) :
       files = [k \in {1} |-> NewMeta([id |-> 1, filename |-> Payload(1).filename,
                                       size |-> Payload(1).size, rep |-> reps])]
  /\ mu = 0
  /\ disk = Doc(files)
  /\ now = 1
  /\ req = [r \in Reqs |-> Idle]

NextRace ==
  \E r \in Reqs :
    \/ NearestNoNodes(r)
    \/ NearestLock(r)
    \/ NearestGet(r)
    \/ NearestSelect(r)
    \/ DeleteStart(r)
    \/ DeleteNode(r)
    \/ DeleteLock(r)
    \/ DeleteDel(r)
    \/ DeleteUnlock(r)

SpecRace == InitRace /\ [][NextRace]_vars

\* ------------------------------------------------------------------ claims
\* The uploads that got past the file check, finished or not.
Ingests == {r \in Reqs : req[r].kind = "upload" /\ req[r].id # 0}

\* C1: when every upload has completed, the uploads got pairwise distinct ids
\* and no /delete/ ran, the mapping (what /list encodes) holds exactly one
\* record per upload, each with the filename and size of the upload whose id
\* it carries.
C1_ConcurrentIngests ==
  ( /\ \A r \in Ingests : req[r].pc = "done"
    /\ \A r, t \in Ingests : r # t => req[r].id # req[t].id
    /\ \A r \in Reqs : req[r].kind # "delete" )
  => /\ Cardinality(DOMAIN files) = Cardinality(Ingests)
     /\ \A r \in Ingests :
          /\ req[r].id \in DOMAIN files
          /\ files[req[r].id].ID = req[r].id
          /\ files[req[r].id].Filename = Payload(r).filename
          /\ files[req[r].id].Size = Payload(r).size

\* Two uploads with distinct ids have both completed.
C1_Witness ==
  /\ Cardinality(Ingests) = 2
  /\ \A r \in Ingests : req[r].pc = "done" /\ req[r].resp.code = 201
  /\ \A r, t \in Ingests : r # t => req[r].id # req[t].id
  /\ Cardinality(DOMAIN files) = 2

\* C2: no two uploads of one process are given the same id.
C2_UniqueIds == \A r, t \in Ingests : r # t => req[r].id # req[t].id

\* The replica ids of record m that name a node of configuration ns, as
\* positions in ns.
Survivors(ns, m) ==
  {i \in 1..Len(ns) : \E j \in 1..Len(m.Replicated) : m.Replicated[j] = ns[i].ID}

\* /nearest/ has answered for a record it found.
Located(r) == At(r, "nearest", "done") /\ Len(nodes) # 0 /\ req[r].ok

C4_NearestSurvivor ==
  \A r \in Reqs :
    (Located(r) /\ Survivors(nodes, req[r].meta) # {})
    => /\ req[r].resp.code = 200
       /\ \E i \in Survivors(nodes, req[r].meta) :
            /\ req[r].resp.node = <<nodes[i]>>
            /\ \A k \in Survivors(nodes, req[r].meta) :
                 /\ haversine(RefLat, nodes[i].Lat) <= haversine(RefLat, nodes[k].Lat)
                 /\ haversine(RefLat, nodes[i].Lat) = haversine(RefLat, nodes[k].Lat) => i <= k

\* Two equidistant configured replicas, listed after an unconfigured one and
\* in reverse order, and a nearer node that holds no replica: the first
\* configured replica is returned.
C4_Witness ==
  /\ Located(1)
  /\ Len(nodes) = 2
  /\ req[1].meta.Replicated = <<MaxGeoNodes + 1, 2, 1>>
  /\ haversine(RefLat, nodes[1].Lat) = haversine(RefLat, nodes[2].Lat)
  /\ req[1].resp.node = <<nodes[1]>>

\* C5: with at least one node configured, /nearest/ on a record whose
\* replica list is empty answers 503 and returns no node.
C5_EmptyReplicasUnavailable ==
  \A r \in Reqs :
    (Located(r) /\ Len(req[r].meta.Replicated) = 0)
    => req[r].resp.code = 503 /\ req[r].resp.node = <<>>

\* /nearest/ found the record of an upload that no node accepted.
C5_Witness ==
  \E r \in Reqs :
    /\ Located(r)
    /\ req[r].meta.ID = req[r].id
    /\ Len(req[r].meta.Replicated) = 0
    /\ req[r].resp.code = 503

\* C6 as stated: whenever /nearest/ completes for an id that has no record,
\* it answers 404, whatever the node list is.  A handler completes either
\* without a lookup (no nodes) or after one (ok tells what it found).
C6_NotFoundAlways ==
  [][\A r \in Reqs :
       ( /\ req[r].pc # "done"
         /\ req'[r].pc = "done"
         /\ req'[r].kind = "nearest"
         /\ IF req[r].pc = "idle" THEN req'[r].id \notin DOMAIN files ELSE ~req[r].ok )
       => req'[r].resp.code = 404]_vars

\* C6 amended: with at least one node configured /nearest/ answers 404 for an
\* id without record; with no node configured it answers 503 before it
\* looks anything up.
C6_NotFoundWithNodes ==
  \A r \in Reqs :
    At(r, "nearest", "done")
    => /\ (Len(nodes) # 0 /\ ~req[r].ok) => (req[r].resp.code = 404 /\ req[r].resp.node = <<>>)
       /\ Len(nodes) = 0 => req[r].resp = HttpError(503, "no storage nodes configured")

\* /nearest/ answered 404 with a node configured.
C6_Witness ==
  \E r \in Reqs :
    /\ At(r, "nearest", "done")
    /\ Len(nodes) # 0
    /\ ~req[r].ok
    /\ req[r].id \notin DOMAIN files
    /\ req[r].resp.code = 404

\* C7: an upload to which no node answered 201 has, when it has stored its
\* record and still holds the lock, a record with an empty replica list
\* under its id, and it answers 201.
C7_AllNodesFail ==
  \A r \in Ingests :
    ~req[r].acked
    => /\ req[r].pc = "unlock"
          => /\ req[r].id \in DOMAIN files
             /\ files[req[r].id].Replicated = <<>>
       /\ req[r].pc = "done" => req[r].resp.code = 201

\* An upload that a configured node refused has answered 201 and its record
\* is there with no replica.
C7_Witness ==
  \E r \in Ingests :
    /\ Len(nodes) # 0
    /\ ~req[r].acked
    /\ req[r].pc = "done"
    /\ req[r].resp.code = 201
    /\ req[r].id \in DOMAIN files
    /\ files[req[r].id].Replicated = <<>>

\* C8: when /delete/ has removed the record and written the document, the
\* lock still held, the id has no record, whatever the nodes answered and
\* whether or not the write succeeded.
C8_DeletedIsAbsent ==
  \A r \in Reqs : At(r, "delete", "unlock") => req[r].id \notin DOMAIN files

\* A /delete/ of an uploaded id, with every node's delete failed and the
\* write failed (the document still holds the record), has removed the record.
C8_Witness ==
  \E r \in Reqs :
    /\ At(r, "delete", "unlock")
    /\ Len(nodes) # 0
    /\ ~req[r].acked
    /\ disk.kind = "doc"
    /\ req[r].id \in DOMAIN disk.doc
    /\ req[r].id \notin DOMAIN files

\* C9: the delete step leaves every other record as it was, leaves the
\* mapping unchanged when the id has no record, leaves a mapping that a
\* second delete of the id would not change, and the handler answers
\* "deleted" without error.
C9_DeleteIdempotent ==
  [][\A r \in Reqs :
       /\ (At(r, "delete", "del") /\ req'[r].pc = "unlock")
          => /\ req[r].id \notin DOMAIN files => files' = files
             /\ \A k \in DOMAIN files \ {req[r].id} : k \in DOMAIN files' /\ files'[k] = files[k]
             /\ Remove(files', req[r].id) = files'
       /\ (req'[r].kind = "delete" /\ req'[r].pc = "done")
          => req'[r].resp = [NoResp EXCEPT !.code = 200, !.msg = "deleted"]]_vars

\* A /delete/ of an id that no upload was given has completed while another
\* id's record is in the mapping.
C9_Witness ==
  \E r \in Reqs :
    /\ At(r, "delete", "done")
    /\ req[r].resp.msg = "deleted"
    /\ \A u \in Ingests : req[u].id # req[r].id
    /\ \E u \in Ingests : req[u].pc = "done" /\ req[u].id \in DOMAIN files

\* C10: a process that has just started holds every record of the document.
C10_LoadedAtStart == (JustStarted /\ disk.kind = "doc") => files = disk.doc

\* Request r is at a statement that reads or writes `files` or the document.
Accessing(r) ==
  \/ At(r, "list", "encode")
  \/ At(r, "upload", "put")
  \/ At(r, "nearest", "get")
  \/ At(r, "delete", "del")

\* C11: a handler that is at a read or write of the mapping or of the
\* document holds the lock, so no two handlers are at such a statement
\* together.
C11_AccessUnderLock ==
  /\ \A r \in Reqs : Accessing(r) => mu = r
  /\ \A r, t \in Reqs : (Accessing(r) /\ Accessing(t)) => r = t

\* An upload is at its put while a /delete/ that has finished with the
\* nodes waits for the lock.
C11_Witness ==
  \E r, t \in Reqs :
    /\ At(r, "upload", "put")
    /\ mu = r
    /\ At(t, "delete", "nodes")
    /\ req[t].idx > Len(nodes)

\* Request r has been answered 400, 404 or 503, or runs a read-only handler.
Harmless(q) ==
  \/ q.kind \in {"list", "nearest", "file"}
  \/ q.resp.code \in {400, 404, 503}

\* C12: no step of /list, /nearest/ or /file/, and no step of a request that
\* is answered 400, 404 or 503, changes the mapping or the document; an
\* upload answered 400 has sent no replication request.
C12_NoMutation ==
  [][\A r \in Reqs :
       (req'[r] # req[r] /\ req'[r].pc # "gone" /\ (Harmless(req[r]) \/ Harmless(req'[r])))
       => /\ files' = files
          /\ disk' = disk
          /\ req'[r].resp.code = 400 => (req'[r].sent = <<>> /\ req'[r].pc = "done")]_vars

\* With a record stored and written, a /nearest/ has answered 404 and the
\* mapping and the document still hold the record.
C12_Witness ==
  \E r, u \in Reqs :
    /\ At(r, "nearest", "done")
    /\ req[r].resp.code = 404
    /\ At(u, "upload", "done")
    /\ req[u].id \in DOMAIN files
    /\ disk = Doc(files)

\* The ids of configuration ns, in order.
NodeIds(ns) == [i \in 1..Len(ns) |-> ns[i].ID]

\* The members of sequence s.
Range(s) == {s[i] : i \in 1..Len(s)}

C14_WrittenOnce ==
  [][\A id \in DOMAIN files \cap DOMAIN files' : files'[id] = files[id]]_vars

\* C15: every record in the mapping is the record of an upload that had
\* tried every configured node before it stored it, and carries that
\* upload's complete replica list: no record of an upload still in its loop
\* is ever in the mapping.
C15_NoPartialRecord ==
  \A id \in DOMAIN files :
    \E r \in Ingests :
      /\ req[r].id = id
      /\ req[r].pc \in {"unlock", "done"}
      /\ req[r].sent = NodeIds(nodes)
      /\ files[id] = NewMeta(req[r])

\* While one upload is in its loop, with a node still to try, the mapping
\* holds the finished record of another and nothing under the first's id.
C15_Witness ==
  \E r, t \in Ingests :
    /\ req[r].pc = "replicate" /\ req[r].idx <= Len(nodes)
    /\ req[r].id \notin DOMAIN files
    /\ req[t].pc = "done" /\ req[t].id \in DOMAIN files
    /\ files[req[t].id].Replicated = <<1>>

\* Request r has changed the mapping and called saveDB.
Mutated(r) ==
  /\ req[r].pc \in {"unlock", "done"}
  /\ req[r].kind = "delete" \/ (req[r].kind = "upload" /\ req[r].id # 0)

\* C16: when the lock is free, some request of this process has changed the
\* mapping and no write of this process failed, the document is the
\* complete mapping.
C16_DocumentIsMapping ==
  ( /\ mu = 0
    /\ \E r \in Reqs : Mutated(r)
    /\ \A r \in Reqs : Mutated(r) => req[r].saved )
  => disk = Doc(files)

\* An upload and then a /delete/ of another id have both written the
\* document; it holds the one record.
C16_Witness ==
  /\ mu = 0
  /\ \E r, t \in Reqs :
       /\ At(r, "upload", "done") /\ req[r].saved
       /\ At(t, "delete", "done") /\ req[t].saved
       /\ req[r].id # req[t].id
  /\ disk = Doc(files)
  /\ Cardinality(DOMAIN files) = 1

\* C17: after a failed write the upload's record is in the mapping and the
\* deleted id is not (seen while the handler still holds the lock), and the
\* handler answers 201, or "deleted", as if the write had succeeded.
C17_WriteFailureKept ==
  \A r \in Reqs :
    (Mutated(r) /\ ~req[r].saved)
    => /\ At(r, "upload", "unlock")
          => (req[r].id \in DOMAIN files /\ files[req[r].id] = NewMeta(req[r]))
       /\ At(r, "delete", "unlock") => req[r].id \notin DOMAIN files
       /\ At(r, "upload", "done") => req[r].resp = [NoResp EXCEPT !.code = 201]
       /\ At(r, "delete", "done") => req[r].resp = [NoResp EXCEPT !.code = 200, !.msg = "deleted"]

\* An upload whose write failed has answered 201; a later /nearest/ found its
\* record, which the document does not hold.
C17_Witness ==
  \E r, t \in Reqs :
    /\ At(r, "upload", "done") /\ ~req[r].saved
    /\ req[r].resp.code = 201
    /\ disk.kind = "absent"
    /\ At(t, "nearest", "done")
    /\ req[t].ok /\ req[t].meta = NewMeta(req[r])

\* C18: in a process that keeps running, every upload and every /delete/
\* that has started is eventually answered, whatever the nodes answer or
\* fail to answer within the timeout.
C18_Completes ==
  \A r \in Reqs : (req[r].kind \in {"upload", "delete"}) ~> (req[r].pc = "done")

\* An upload whose node timed out has been answered after it had to wait for
\* the lock behind a /delete/ whose node failed too.
C18_Witness ==
  \E r, t \in Reqs :
    /\ At(r, "upload", "done") /\ req[r].sent # <<>> /\ req[r].got = {}
    /\ At(t, "delete", "done") /\ req[t].sent # <<>> /\ ~req[t].acked
    /\ req[r].id = req[t].id
    /\ req[r].id \in DOMAIN files

\* The handler of request r is in a client.Do of its loop, or about to be.
AwaitsNode(r) ==
  /\ req[r].kind \in {"upload", "delete"}
  /\ req[r].pc \in {"replicate", "nodes"}
  /\ req[r].idx <= Len(nodes)

\* The steps a handler takes between mu.Lock() and mu.Unlock().
Critical == {"encode", "put", "get", "del", "unlock"}

\* C19: the handler that holds the lock is between its Lock and its Unlock,
\* where it makes no node request, and if it is an upload or a /delete/ it
\* has finished the request to every node; a handler waiting for a node, or
\* one that has answered, does not hold the lock.
C19_NoLockAcrossNodeRequest ==
  \A r \in Reqs :
    /\ mu = r =>
         /\ req[r].pc \in Critical
         /\ ~AwaitsNode(r)
         /\ req[r].kind \in {"upload", "delete"} => req[r].sent = NodeIds(nodes)
    /\ AwaitsNode(r) \/ req[r].pc \in {"idle", "done", "gone"} => mu # r
    /\ req[r].pc \in Critical => mu = r

\* A handler is waiting for a node while a request that arrived after it
\* holds the lock.
C19_Witness ==
  \E r, t \in Reqs :
    /\ r < t
    /\ AwaitsNode(r)
    /\ mu = t

\* /nearest/ has answered request r with a node.
Returned(r) == At(r, "nearest", "done") /\ req[r].resp.code = 200

\* C20 as stated: whenever /nearest/ returns node n for id, n is in the
\* record's replica list and no /delete/ of id had sent n its request when
\* the answer was made.
C20_ReturnedNotYetDeleted ==
  \A r \in Reqs :
    Returned(r) =>
      /\ req[r].resp.node[1].ID \in Range(req[r].meta.Replicated)
      /\ ~req[r].stale

\* C20: whenever /nearest/ returns node n for id, it found the record of id
\* under the lock, n is configured and n is in that record's replica list;
\* as long as the record exists it is the one the handler read.
C20_ReturnedAcknowledged ==
  \A r \in Reqs :
    /\ Returned(r) =>
         /\ req[r].ok
         /\ req[r].meta.ID = req[r].id
         /\ req[r].resp.node[1].ID \in Range(req[r].meta.Replicated)
         /\ req[r].resp.node[1] \in Range(nodes)
    /\ (req[r].kind = "nearest" /\ req[r].ok /\ req[r].id \in DOMAIN files)
         => req[r].meta = files[req[r].id]

\* /nearest/ returned a node of the replica list to which a /delete/ of the
\* same id, still short of removing the record, had sent its request.
C20_Witness ==
  \E r, t \in Reqs :
    /\ Returned(r)
    /\ req[r].stale
    /\ req[r].resp.node[1].ID \in Range(req[r].meta.Replicated)
    /\ req[t].kind = "delete" /\ req[t].id = req[r].id
    /\ req[r].resp.node[1].ID \in Range(req[t].sent)
====
